---- MODULE Spec2Model ----
(***************************************************************************)
(* FoamWorkspace (packages/foam-core/src/model/workspace.ts): the resource *)
(* index (resources, resourcesByName, placeholders), the link graph        *)
(* (links, backlinks) and the handlers that keep the graph in step with    *)
(* set/delete once resolveLinks(true) has subscribed them.                 *)
(*                                                                         *)
(* A path or reference string is the record [dir, name, ext]: "/a/n.md" is *)
(* [dir |-> "/a", name |-> "n", ext |-> ".md"], the bare key "n" has       *)
(* dir = "", and "./n" has dir = ".".  A URI is [scheme, path].  A JS      *)
(* object used as a map is a function on the set of its keys; a key whose  *)
(* value was assigned `undefined` is read by this file only through `??`   *)
(* and `?.`, which treat it as a missing key, and is modelled as missing.  *)
(***************************************************************************)
EXTENDS Integers, Sequences, FiniteSets, TLC

VARIABLES resources, resourcesOrder, resourcesByName, placeholders,
          links, backlinks, monitors, calls, last

vars == <<resources, resourcesOrder, resourcesByName, placeholders,
          links, backlinks, monitors, calls, last>>

-----------------------------------------------------------------------------
(* Bound of the model *)

\* most public calls in one run
MaxCalls == 4

-----------------------------------------------------------------------------
(* Strings, paths and URIs *)

Str(d, n, e) == [dir |-> d, name |-> n, ext |-> e]

NoStr == Str("", "", "")

AbsDirs == {"/a", "/b"}

FileUri(p) == [scheme |-> "file", path |-> p]

NoUri == [scheme |-> "none", path |-> NoStr]

\* the key a bare name stands for in the placeholder map
Key(n) == Str("", n, "")

\* a.localeCompare(b) < 0 on the ids of the model: by directory, then by
\* name, then by extension
Rank(s) == CASE s = "" -> 0 [] s = "." -> 1 [] s = "/a" -> 2 [] s = "/b" -> 3
             [] s = "m" -> 4 [] s = "n" -> 5 [] s = ".md" -> 6 [] OTHER -> 7

localeCompareLess(a, b) ==
  \/ Rank(a.dir) < Rank(b.dir)
  \/ a.dir = b.dir /\ Rank(a.name) < Rank(b.name)
  \/ a.dir = b.dir /\ a.name = b.name /\ Rank(a.ext) < Rank(b.ext)

placeholderUri(key) == [scheme |-> "placeholder", path |-> key]

isPlaceholder(uri) == uri.scheme = "placeholder"

isSameUri(a, b) == a.scheme = b.scheme /\ a.path = b.path

\* the reference's directory joined with the slug, which takes the
\* reference's extension when it has none
computeRelativeURI(reference, relativeSlug) ==
  [reference EXCEPT !.path =
     Str(reference.path.dir, relativeSlug.name,
         IF relativeSlug.ext # "" THEN relativeSlug.ext ELSE reference.path.ext)]

parseUri(reference, value) ==
  IF value.dir \in AbsDirs THEN FileUri(value)
  ELSE computeRelativeURI(reference, value)

getReferenceType(reference) ==
  IF "scheme" \in DOMAIN reference THEN "uri"
  ELSE IF reference.dir = "" THEN "key"
  ELSE IF reference.dir \in AbsDirs THEN "absolute-path"
  ELSE "relative-path"

pathToResourceId(pathValue) ==
  IF pathValue.ext # "" THEN pathValue ELSE [pathValue EXCEPT !.ext = ".md"]

uriToResourceId(uri) == pathToResourceId(uri.path)

pathToResourceName(pathValue) == pathValue.name

uriToResourceName(uri) == pathToResourceName(uri.path)

pathToPlaceholderId(value) == value

uriToPlaceholderId(uri) == pathToPlaceholderId(uri.path)

-----------------------------------------------------------------------------
(* Resources, links and connections *)

Note(uri, ls, defs) ==
  [type |-> "note", uri |-> uri, links |-> ls, definitions |-> defs]

Placeholder(uri) ==
  [type |-> "placeholder", uri |-> uri, links |-> <<>>, definitions |-> <<>>]

\* null / undefined
None == [type |-> "none", uri |-> NoUri, links |-> <<>>, definitions |-> <<>>]

isSome(r) == r.type # "none"

isNone(r) == r.type = "none"

WikiLink(slug, pos) ==
  [type |-> "wikilink", slug |-> slug, target |-> NoStr, position |-> pos]

DirectLink(target, pos) ==
  [type |-> "link", slug |-> NoStr, target |-> target, position |-> pos]

Connection(source, target, link) ==
  [source |-> source, target |-> target, link |-> link]

isSamePosition(a, b) == a = b

isSameLink(a, b) == a.type = b.type /\ isSamePosition(a.position, b.position)

isSameConnection(a, b) ==
  /\ isSameUri(a.source, b.source)
  /\ isSameUri(a.target, b.target)
  /\ isSameLink(a.link, b.link)

\* lodash isEqual on two links
isEqual(a, b) == a = b

-----------------------------------------------------------------------------
(* JS objects as maps *)

EmptyMap == [k \in {} |-> None]

Has(m, k) == k \in DOMAIN m

Put(m, k, v) == [x \in DOMAIN m \cup {k} |-> IF x = k THEN v ELSE m[x]]

Del(m, k) == [x \in DOMAIN m \ {k} |-> m[x]]

\* m[k] ?? []
ListAt(m, k) == IF Has(m, k) THEN m[k] ELSE <<>>

\* m[k] ?? null
ResourceAt(m, k) == IF Has(m, k) THEN m[k] ELSE None

Range(s) == {s[i] : i \in 1..Len(s)}

RECURSIVE Insert(_, _)
Insert(x, s) ==
  IF s = <<>> THEN <<x>>
  ELSE IF localeCompareLess(x, Head(s)) THEN <<x>> \o s
  ELSE <<Head(s)>> \o Insert(x, Tail(s))

\* paths.sort((a, b) => a.localeCompare(b)): a stable sort
RECURSIVE SortPaths(_)
SortPaths(s) ==
  IF s = <<>> THEN <<>>
  ELSE Insert(s[Len(s)], SortPaths(SubSeq(s, 1, Len(s) - 1)))

-----------------------------------------------------------------------------
(* The workspace threaded through the static methods.  err is the exception *)
(* in flight ("" when there is none); events and thrown record what the     *)
(* current public call has emitted and what its listeners have thrown.  A   *)
(* step that uses the result of a call takes it as a parameter.             *)

Ok(w) == w.err = ""

Throw(w, e) == [w EXCEPT !.err = e]

Ret(w, r) == [w |-> w, r |-> r]

exists(w, uri) == Has(w.resources, uriToResourceId(uri))

\* Object.values(workspace.resources): the Notes in insertion order
listNotes(w) == [i \in 1..Len(w.resourcesOrder) |-> w.resources[w.resourcesOrder[i]]]

\* find that takes the first id of the basename without sorting the ids
findUnsorted(w, resourceId, reference) ==
  LET refType == getReferenceType(resourceId) IN
  CASE refType = "uri" ->
         IF resourceId.scheme = "placeholder"
         THEN Ret(w, IF Has(w.placeholders, resourceId.path)
                     THEN Placeholder(resourceId) ELSE None)
         ELSE Ret(w, IF exists(w, resourceId)
                     THEN w.resources[uriToResourceId(resourceId)] ELSE None)
    [] refType = "key" ->
         LET name == pathToResourceName(resourceId)
             paths == ListAt(w.resourcesByName, name)
         IN IF paths = <<>>
            THEN Ret(w, ResourceAt(w.placeholders, pathToPlaceholderId(resourceId)))
            ELSE Ret(w, ResourceAt(w.resources, paths[1]))
    [] refType = "absolute-path" ->
         LET resourceUri == FileUri(resourceId) IN
         Ret(w, IF Has(w.resources, uriToResourceId(resourceUri))
                THEN w.resources[uriToResourceId(resourceUri)]
                ELSE ResourceAt(w.placeholders, uriToPlaceholderId(resourceUri)))
    [] refType = "relative-path" ->
         IF reference = NoUri THEN Ret(w, None)
         ELSE LET targetUri == computeRelativeURI(reference, resourceId) IN
              Ret(w, IF Has(w.resources, uriToResourceId(targetUri))
                     THEN w.resources[uriToResourceId(targetUri)]
                     ELSE ResourceAt(w.placeholders, pathToPlaceholderId(resourceId)))
    [] OTHER -> Ret(Throw(w, "Unexpected reference type"), None)

\* find sorts resourcesByName[name] in place when it holds several ids
find(w, resourceId, reference) ==
  LET refType == getReferenceType(resourceId) IN
  CASE refType = "uri" ->
         IF resourceId.scheme = "placeholder"
         THEN Ret(w, IF Has(w.placeholders, resourceId.path)
                     THEN Placeholder(resourceId) ELSE None)
         ELSE Ret(w, IF exists(w, resourceId)
                     THEN w.resources[uriToResourceId(resourceId)] ELSE None)
    [] refType = "key" ->
         LET name == pathToResourceName(resourceId)
             paths == ListAt(w.resourcesByName, name)
             sortedPaths == IF Len(paths) = 1 THEN paths ELSE SortPaths(paths)
         IN IF paths = <<>>
            THEN Ret(w, ResourceAt(w.placeholders, pathToPlaceholderId(resourceId)))
            ELSE Ret([w EXCEPT !.resourcesByName = Put(@, name, sortedPaths)],
                     ResourceAt(w.resources, sortedPaths[1]))
    [] refType = "absolute-path" ->
         LET resourceUri == FileUri(resourceId) IN
         Ret(w, IF Has(w.resources, uriToResourceId(resourceUri))
                THEN w.resources[uriToResourceId(resourceUri)]
                ELSE ResourceAt(w.placeholders, uriToPlaceholderId(resourceUri)))
    [] refType = "relative-path" ->
         IF reference = NoUri THEN Ret(w, None)
         ELSE LET targetUri == computeRelativeURI(reference, resourceId) IN
              Ret(w, IF Has(w.resources, uriToResourceId(targetUri))
                     THEN w.resources[uriToResourceId(targetUri)]
                     ELSE ResourceAt(w.placeholders, pathToPlaceholderId(resourceId)))
    [] OTHER -> Ret(Throw(w, "Unexpected reference type"), None)

\* get, given what find returned
found(f) == IF isSome(f.r) THEN f ELSE Ret(Throw(f.w, "Resource not found"), None)

get(w, uri) == found(find(w, uri, NoUri))

getLinks(w, uri) == ListAt(w.links, uri.path)

getBacklinks(w, uri) == ListAt(w.backlinks, uri.path)

RECURSIVE set(_, _)

\* note.definitions.find(def => def.label === slug)?.url
RECURSIVE definitionUrl(_, _)
definitionUrl(defs, slug) ==
  IF defs = <<>> THEN NoStr
  ELSE IF Head(defs).label = slug THEN Head(defs).url
  ELSE definitionUrl(Tail(defs), slug)

\* find(...)?.uri ?? fallback
UriOr(r, fallback) == IF isSome(r) THEN r.uri ELSE fallback

\* the end of resolveLink, given what find returned: a placeholder target is
\* set into the workspace
targetOf(f, fallback) ==
  IF isPlaceholder(UriOr(f.r, fallback))
  THEN Ret(set(f.w, Placeholder(UriOr(f.r, fallback))), UriOr(f.r, fallback))
  ELSE Ret(f.w, UriOr(f.r, fallback))

resolveLink(w, note, link) ==
  LET definitionUri == definitionUrl(note.definitions, link.slug)
      definedUri == parseUri(note.uri, definitionUri)
      \* what the branch of the switch looks up, and its placeholder
      resourceId == IF link.type = "wikilink"
                    THEN IF definitionUri # NoStr THEN definedUri ELSE link.slug
                    ELSE link.target
      fallback == IF link.type = "wikilink"
                  THEN IF definitionUri # NoStr THEN placeholderUri(definedUri.path)
                       ELSE placeholderUri(link.slug)
                  ELSE placeholderUri(parseUri(note.uri, link.target).path)
  IN targetOf(find(w, resourceId, note.uri), fallback)

connect(w, source, target, link) ==
  [w EXCEPT
     !.links = Put(@, source.path,
                   Append(ListAt(@, source.path), Connection(source, target, link))),
     !.backlinks = Put(@, target.path,
                       Append(ListAt(@, target.path), Connection(source, target, link)))]

\* disconnect that leaves the emptied lists in links and backlinks
disconnectKeepingEmpty(w, source, target, link) ==
  LET connectionsToKeep(c) == ~isSameConnection(Connection(source, target, link), c)
      outgoing == SelectSeq(ListAt(w.links, source.path), connectionsToKeep)
      incoming == SelectSeq(ListAt(w.backlinks, target.path), connectionsToKeep)
  IN IF ~Has(w.links, source.path) THEN Throw(w, "TypeError")
     ELSE IF ~Has(w.backlinks, target.path)
     THEN Throw([w EXCEPT !.links = Put(@, source.path, outgoing)], "TypeError")
     ELSE [w EXCEPT
             !.links = Put(@, source.path, outgoing),
             !.backlinks = Put(@, target.path, incoming),
             !.placeholders = IF incoming = <<>> /\ isPlaceholder(target)
                              THEN Del(@, uriToPlaceholderId(target)) ELSE @]

\* the callers of this file pass a NoteLink, never `true`.  On a missing
\* entry, links[source.path]?.filter(...) is undefined and its .length
\* throws TypeError; the same holds for backlinks[target.path] afterwards.
disconnect(w, source, target, link) ==
  LET connectionsToKeep(c) == ~isSameConnection(Connection(source, target, link), c)
      outgoing == SelectSeq(ListAt(w.links, source.path), connectionsToKeep)
      incoming == SelectSeq(ListAt(w.backlinks, target.path), connectionsToKeep)
      pruned == IF outgoing = <<>> THEN Del(w.links, source.path)
                ELSE Put(w.links, source.path, outgoing)
  IN IF ~Has(w.links, source.path) THEN Throw(w, "TypeError")
     ELSE IF ~Has(w.backlinks, target.path)
     THEN Throw([w EXCEPT !.links = pruned], "TypeError")
     ELSE [w EXCEPT
             !.links = pruned,
             !.backlinks = IF incoming = <<>> THEN Del(@, target.path)
                           ELSE Put(@, target.path, incoming),
             !.placeholders = IF incoming = <<>> /\ isPlaceholder(target)
                              THEN Del(@, uriToPlaceholderId(target)) ELSE @]

\* connect(ws, resource.uri, target, link), given what resolveLink returned
connectTo(t, resource, link) ==
  IF Ok(t.w) THEN connect(t.w, resource.uri, t.r, link) ELSE t.w

\* links.forEach / links.reduce of (resolveLink, connect) from element i on
RECURSIVE connectEach(_, _, _, _)
connectEach(w, resource, ls, i) ==
  IF i > Len(ls) \/ ~Ok(w) THEN w
  ELSE connectEach(connectTo(resolveLink(w, resource, ls[i]), resource, ls[i]),
                   resource, ls, i + 1)

resolveResource(w, resource) ==
  IF resource.type = "note"
  THEN connectEach([w EXCEPT !.links = Del(@, resource.uri.path)],
                   resource, resource.links, 1)
  ELSE w

-----------------------------------------------------------------------------
(* The handlers resolveLinks(true) subscribes *)

RECURSIVE lcs(_, _)
lcs(a, b) ==
  IF a = <<>> \/ b = <<>> THEN <<>>
  ELSE IF isEqual(Head(a), Head(b)) THEN <<Head(a)>> \o lcs(Tail(a), Tail(b))
  ELSE IF Len(lcs(Tail(a), b)) >= Len(lcs(a, Tail(b))) THEN lcs(Tail(a), b)
  ELSE lcs(a, Tail(b))

\* diff(old, new, isEqual) of fast-array-diff: what is outside a longest
\* common subsequence.  The links of one note are pairwise different.
diff(old, new) ==
  [removed |-> SelectSeq(old, LAMBDA l : l \notin Range(lcs(old, new))),
   added |-> SelectSeq(new, LAMBDA l : l \notin Range(lcs(old, new)))]

\* disconnect(ws, oldResource.uri, target, link), given what resolveLink returned
disconnectFrom(t, oldResource, link) ==
  IF Ok(t.w) THEN disconnect(t.w, oldResource.uri, t.r, link) ELSE t.w

\* patch.removed.reduce(...) from element i on
RECURSIVE disconnectEach(_, _, _, _)
disconnectEach(w, oldResource, removed, i) ==
  IF i > Len(removed) \/ ~Ok(w) THEN w
  ELSE disconnectEach(
         disconnectFrom(resolveLink(w, oldResource, removed[i]), oldResource, removed[i]),
         oldResource, removed, i + 1)

updateLinksForResource(w, oldResource, newResource) ==
  IF oldResource.uri.path # newResource.uri.path
  THEN Throw(w, "Unexpected State")
  ELSE IF oldResource.type = "note" /\ newResource.type = "note"
  THEN connectEach(
         disconnectEach(w, oldResource, diff(oldResource.links, newResource.links).removed, 1),
         newResource, diff(oldResource.links, newResource.links).added, 1)
  ELSE w

\* resolveResource(ws, ws.get(c.source)), given what get returned
resolveSource(g) == IF Ok(g.w) THEN resolveResource(g.w, g.r) ELSE g.w

\* connections.reduce((ws, c) => resolveResource(ws, ws.get(c.source)))
\* from element i on
RECURSIVE resolveSources(_, _, _)
resolveSources(w, connections, i) ==
  IF i > Len(connections) \/ ~Ok(w) THEN w
  ELSE resolveSources(resolveSource(get(w, connections[i].source)), connections, i + 1)

\* the last statement of a handler, reached when nothing was thrown before
thenResolve(w, resource) == IF Ok(w) THEN resolveResource(w, resource) ELSE w

updateLinksRelatedToAddedResource(w, resource) ==
  LET name == Key(uriToResourceName(resource.uri)) IN
  thenResolve(IF Has(w.placeholders, name)
              THEN resolveSources([w EXCEPT !.placeholders = Del(@, name)],
                                  ListAt(w.backlinks, w.placeholders[name].uri.path), 1)
              ELSE w,
              resource)

\* targets.reduce((ws, c) => disconnect(ws, uri, c.target, c.link)) from
\* element i on
RECURSIVE disconnectTargets(_, _, _, _)
disconnectTargets(w, uri, connections, i) ==
  IF i > Len(connections) \/ ~Ok(w) THEN w
  ELSE disconnectTargets(
         disconnect(w, uri, connections[i].target, connections[i].link),
         uri, connections, i + 1)

\* the second half of the Deleted handler: recompute the links to the
\* deleted resource
recomputeSources(w, uri) ==
  IF Ok(w)
  THEN resolveSources([w EXCEPT !.backlinks = Del(@, uri.path)],
                      ListAt(w.backlinks, uri.path), 1)
  ELSE w

updateLinksRelatedToDeletedResource(w, resource) ==
  recomputeSources(
    disconnectTargets([w EXCEPT !.links = Del(@, resource.uri.path)],
                      resource.uri, ListAt(w.links, resource.uri.path), 1),
    resource.uri)

Handle(w, kind, old, new) ==
  CASE kind = "Added" -> updateLinksRelatedToAddedResource(w, new)
    [] kind = "Updated" -> updateLinksForResource(w, old, new)
    [] kind = "Deleted" -> updateLinksRelatedToDeletedResource(w, old)

\* what a listener throws is caught by the emitter
caught(h) == IF Ok(h) THEN h ELSE [h EXCEPT !.thrown = Append(@, h.err), !.err = ""]

\* the listeners of one emitter, called in subscription order from the i-th
RECURSIVE deliver(_, _, _, _, _)
deliver(w, kind, old, new, i) ==
  IF i > w.monitors THEN w
  ELSE deliver(caught(Handle(w, kind, old, new)), kind, old, new, i + 1)

\* emitter.fire(event); held tells whether the index already stores `new`
\* under its id when the event is emitted
fire(w, kind, old, new) ==
  deliver([w EXCEPT !.events =
             Append(@, [kind |-> kind, old |-> old, new |-> new,
                        held |-> isSome(new) /\
                                 ResourceAt(w.resources, uriToResourceId(new.uri)) = new])],
          kind, old, new, 1)

-----------------------------------------------------------------------------
(* The public static methods *)

\* stored that keys the index by the path as given, without the default
\* extension
storedUnderPath(w, resource) ==
  [w EXCEPT
     !.resourcesOrder = IF Has(w.resources, resource.uri.path) THEN @
                        ELSE Append(@, resource.uri.path),
     !.resources = Put(@, resource.uri.path, resource),
     !.resourcesByName = Put(@, uriToResourceName(resource.uri),
                             Append(ListAt(@, uriToResourceName(resource.uri)),
                                    resource.uri.path))]

\* the index with the resource stored under its id and its name
stored(w, resource) ==
  [w EXCEPT
     !.resourcesOrder = IF Has(w.resources, uriToResourceId(resource.uri)) THEN @
                        ELSE Append(@, uriToResourceId(resource.uri)),
     !.resources = Put(@, uriToResourceId(resource.uri), resource),
     !.resourcesByName = Put(@, uriToResourceName(resource.uri),
                             Append(ListAt(@, uriToResourceName(resource.uri)),
                                    uriToResourceId(resource.uri)))]

\* isSome(old) ? onDidUpdateEmitter.fire({old, new}) : onDidAddEmitter.fire(new)
notify(w, old, resource) ==
  fire(w, IF isSome(old) THEN "Updated" ELSE "Added", old, resource)

\* set of a Note, given what find(workspace, resource.uri) returned
storeAndNotify(f, resource) == notify(stored(f.w, resource), f.r, resource)

\* set that looks the old Note up after it has stored the new one
setStoringFirst(w, resource) ==
  IF resource.type = "placeholder"
  THEN [w EXCEPT !.placeholders = Put(@, uriToPlaceholderId(resource.uri), resource)]
  ELSE notify(stored(w, resource),
              find(stored(w, resource), resource.uri, NoUri).r, resource)

\* set that announces a placeholder as it announces a Note
setAnnouncingPlaceholders(w, resource) ==
  IF resource.type = "placeholder"
  THEN [w EXCEPT !.placeholders = Put(@, uriToPlaceholderId(resource.uri), resource),
                 !.events = Append(@, [kind |-> "Added", old |-> None,
                                       new |-> resource, held |-> FALSE])]
  ELSE storeAndNotify(find(w, resource.uri, NoUri), resource)

set(w, resource) ==
  IF resource.type = "placeholder"
  THEN [w EXCEPT !.placeholders = Put(@, uriToPlaceholderId(resource.uri), resource)]
  ELSE storeAndNotify(find(w, resource.uri, NoUri), resource)

delete(w, uri) ==
  LET id == uriToResourceId(uri)
      deleted == ResourceAt(w.resources, id)
      name == uriToResourceName(uri)
      remaining == SelectSeq(ListAt(w.resourcesByName, name), LAMBDA resId : resId # id)
      removed == [w EXCEPT !.resources = Del(@, id),
                           !.resourcesOrder = SelectSeq(@, LAMBDA x : x # id)]
      \* resourcesByName[name].filter(...) on a missing entry: TypeError
  IN IF ~Has(w.resourcesByName, name) THEN Ret(Throw(removed, "TypeError"), None)
     ELSE IF isSome(deleted)
     THEN Ret(fire([removed EXCEPT !.resourcesByName =
                      IF remaining = <<>> THEN Del(@, name) ELSE Put(@, name, remaining)],
                   "Deleted", deleted, None),
              deleted)
     ELSE Ret([removed EXCEPT !.resourcesByName =
                 IF remaining = <<>> THEN Del(@, name) ELSE Put(@, name, remaining)],
              None)

\* workspace.list().reduce((w, r) => resolveResource(w, r)) from element i on
RECURSIVE resolveAll(_, _, _)
resolveAll(w, list, i) ==
  IF i > Len(list) \/ ~Ok(w) THEN w
  ELSE resolveAll(resolveResource(w, list[i]), list, i + 1)

\* if (keepMonitoring) the three listeners are subscribed once more
subscribed(w, keepMonitoring) ==
  IF keepMonitoring /\ Ok(w) THEN [w EXCEPT !.monitors = @ + 1] ELSE w

resolveLinks(w, keepMonitoring) ==
  subscribed(resolveAll([w EXCEPT !.links = EmptyMap, !.backlinks = EmptyMap,
                                  !.placeholders = EmptyMap],
                        listNotes(w), 1),
             keepMonitoring)

-----------------------------------------------------------------------------
(* The inputs of the model *)

\* the wikilink [[n]] and the direct link to /b/n.md, at position pos
W(pos) == WikiLink(Key("n"), pos)

D(pos) == DirectLink(Str("/b", "n", ".md"), pos)

\* the definition [n]: ./m, which sends the wikilink [[n]] to m beside the note
Definition == [label |-> Key("n"), url |-> Str(".", "m", "")]

\* /a/n.md and /b/n.md share the basename n and /a/m.md does not; /a/n has
\* the id of /a/n.md
NotePathsInc == {Str("/a", "m", ".md"), Str("/a", "n", ".md"), Str("/b", "n", ".md")}

NotePaths == NotePathsInc \cup {Str("/a", "n", "")}

LinkLists == {<<>>, <<W(1)>>, <<W(1), W(2)>>, <<D(1)>>}

Notes == {Note(FileUri(p), ls, <<>>) : p \in NotePaths, ls \in LinkLists}

\* incremental mode also sees a wikilink beside a direct link, and a wikilink
\* that a definition of the note resolves
NotesInc ==
  {Note(FileUri(p), ls, <<>>) :
     p \in NotePathsInc, ls \in LinkLists \cup {<<W(1), D(2)>>}}
  \cup {Note(FileUri(p), <<W(1)>>, <<Definition>>) : p \in NotePathsInc}

PlaceholderKeys == {Key("n")}

FindKeys == {Key("n")}

-----------------------------------------------------------------------------
(* State machine: one action per public call *)

Workspace ==
  [resources |-> resources, resourcesOrder |-> resourcesOrder,
   resourcesByName |-> resourcesByName, placeholders |-> placeholders,
   links |-> links, backlinks |-> backlinks, monitors |-> monitors,
   err |-> "", events |-> <<>>, thrown |-> <<>>]

\* a public call returns: the workspace it leaves and what it did
Commit(w, op, resource, uri, ret) ==
  /\ calls < MaxCalls
  /\ calls' = calls + 1
  /\ resources' = w.resources
  /\ resourcesOrder' = w.resourcesOrder
  /\ resourcesByName' = w.resourcesByName
  /\ placeholders' = w.placeholders
  /\ links' = w.links
  /\ backlinks' = w.backlinks
  /\ monitors' = w.monitors
  /\ last' = [op |-> op, resource |-> resource, uri |-> uri, ret |-> ret,
              raised |-> w.err, events |-> w.events, thrown |-> w.thrown]

NoCall(op) ==
  [op |-> op, resource |-> None, uri |-> NoUri, ret |-> None,
   raised |-> "", events |-> <<>>, thrown |-> <<>>]

Init ==
  /\ resources = EmptyMap
  /\ resourcesOrder = <<>>
  /\ resourcesByName = EmptyMap
  /\ placeholders = EmptyMap
  /\ links = EmptyMap
  /\ backlinks = EmptyMap
  /\ monitors = 0
  /\ calls = 0
  /\ last = NoCall("new")

SetCall(resource) ==
  Commit(set(Workspace, resource), "set", resource, resource.uri, None)

\* a public call returns its workspace and its value
CommitRet(d, op, uri) == Commit(d.w, op, None, uri, d.r)

DeleteCall(uri) == CommitRet(delete(Workspace, uri), "delete", uri)

FindCall(key) ==
  CommitRet(find(Workspace, key, NoUri), "find", [scheme |-> "key", path |-> key])

ResolveLinksCall(keepMonitoring) ==
  Commit(resolveLinks(Workspace, keepMonitoring), "resolveLinks", None, NoUri, None)

Next ==
  \/ \E resource \in Notes : SetCall(resource)
  \/ \E key \in PlaceholderKeys : SetCall(Placeholder(placeholderUri(key)))
  \/ \E p \in NotePaths : DeleteCall(FileUri(p))
  \/ \E key \in FindKeys : FindCall(key)
  \/ \E keepMonitoring \in BOOLEAN : ResolveLinksCall(keepMonitoring)

Spec == Init /\ [][Next]_vars

\* incremental mode: resolveLinks(true) on the empty workspace, then Notes
\* are set and deleted
InitInc ==
  /\ resources = EmptyMap
  /\ resourcesOrder = <<>>
  /\ resourcesByName = EmptyMap
  /\ placeholders = EmptyMap
  /\ links = EmptyMap
  /\ backlinks = EmptyMap
  /\ monitors = 1
  /\ calls = 0
  /\ last = NoCall("resolveLinks")

NextInc ==
  \/ \E resource \in NotesInc : SetCall(resource)
  \/ \E p \in NotePathsInc : DeleteCall(FileUri(p))

SpecInc == InitInc /\ [][NextInc]_vars

-----------------------------------------------------------------------------
(* Claims *)

Connections(m) == UNION {Range(m[k]) : k \in DOMAIN m}

AsSets(m) == [k \in DOMAIN m |-> Range(m[k])]

\* the graph resolveLinks computes from scratch on the Notes now stored
Rebuilt == resolveLinks(Workspace, FALSE)

\* C1: in incremental mode, after any sequence of set and delete calls, links,
\* backlinks (as sets of Connections per key) and the set of placeholder ids
\* equal what resolveLinks computes from scratch on the stored Notes.
C1_IncrementalEqualsRebuild ==
  /\ AsSets(links) = AsSets(Rebuilt.links)
  /\ AsSets(backlinks) = AsSets(Rebuilt.backlinks)
  /\ DOMAIN placeholders = DOMAIN Rebuilt.placeholders

\* C2: after every public mutation, a Connection is in links[c.source] iff an
\* equal Connection (source, target, link kind and position) is in
\* backlinks[c.target].
C2_Symmetry ==
  /\ \A k \in DOMAIN links : \A c \in Range(links[k]) :
       /\ c.source.path = k
       /\ \E d \in Range(ListAt(backlinks, c.target.path)) : isSameConnection(c, d)
  /\ \A k \in DOMAIN backlinks : \A d \in Range(backlinks[k]) :
       /\ d.target.path = k
       /\ \E c \in Range(ListAt(links, d.source.path)) : isSameConnection(c, d)

\* C3: after every public mutation in incremental mode, a placeholder id is in
\* the placeholder map iff its list in backlinks is non-empty.
C3_PlaceholderReachability ==
  /\ \A p \in DOMAIN placeholders : ListAt(backlinks, p) # <<>>
  /\ \A c \in Connections(backlinks) :
       isPlaceholder(c.target) => Has(placeholders, uriToPlaceholderId(c.target))

\* the call that just returned was set(n) of a Note
SetOfNote == last'.op = "set" /\ last'.resource.type = "note"

\* how many Connections of the list come from source through link
Count(list, source, link) ==
  Cardinality({i \in 1..Len(list) :
                 isSameUri(list[i].source, source) /\ isSameLink(list[i].link, link)})

\* C4: in incremental mode, when set(n) adds a Note whose basename is the id of
\* a placeholder p, then when set returns p is no longer a placeholder, every
\* Connection that targeted p has its reference targeting n in links, and
\* backlinks of n holds exactly one Connection for each such reference.
C4_Promotion ==
  [][LET n == last'.resource
         p == Key(uriToResourceName(n.uri))
     IN (SetOfNote /\ ~exists(Workspace, n.uri) /\ Has(placeholders, p)) =>
          /\ ~Has(placeholders', p)
          /\ \A c \in Connections(links) :
               c.target = placeholderUri(p) =>
                 /\ \E d \in Range(ListAt(links', c.source.path)) :
                      isSameLink(d.link, c.link) /\ isSameUri(d.target, n.uri)
                 /\ Count(ListAt(backlinks', n.uri.path), c.source, c.link) = 1]_vars

\* C5: in incremental mode, when delete(id) removes a Note that other Notes link
\* to, then when delete returns backlinks keeps no Connection to that Note, and
\* each reference that targeted it targets something else in links, which is a
\* stored placeholder when it is a placeholder.
C5_Demotion ==
  [][LET gone == ResourceAt(resources, uriToResourceId(last'.uri))
         incoming == {c \in Range(ListAt(backlinks, gone.uri.path)) :
                        isSameUri(c.target, gone.uri) /\ ~isSameUri(c.source, gone.uri)}
     IN (last'.op = "delete" /\ isSome(gone) /\ incoming # {}) =>
          /\ \A c \in Connections(backlinks') : ~isSameUri(c.target, gone.uri)
          /\ \A c \in incoming :
               \E d \in Range(ListAt(links', c.source.path)) :
                 /\ isSameLink(d.link, c.link)
                 /\ ~isSameUri(d.target, gone.uri)
                 /\ isPlaceholder(d.target) =>
                      Has(placeholders', uriToPlaceholderId(d.target))]_vars

\* the Connections anywhere in the map that come from source through link
From(m, source, link) ==
  {c \in Connections(m) : isSameUri(c.source, source) /\ isSameLink(c.link, link)}

\* C6: in incremental mode, when set replaces a Note, every reference in both
\* old.links and new.links keeps its Connection and target in links and
\* backlinks, every reference only in old.links has no Connection left in
\* either map, and every reference only in new.links has exactly one
\* Connection from the note in each map.
C6_UpdateDiff ==
  [][LET new == last'.resource
         old == ResourceAt(resources, uriToResourceId(new.uri))
         In(l, ls) == \E k \in Range(ls) : isSameLink(l, k)
     IN (SetOfNote /\ isSome(old)) =>
          /\ \A l \in Range(old.links) :
               IF In(l, new.links)
               THEN /\ From(links', new.uri, l) = From(links, old.uri, l)
                    /\ From(backlinks', new.uri, l) = From(backlinks, old.uri, l)
               ELSE /\ From(links', old.uri, l) = {}
                    /\ From(backlinks', old.uri, l) = {}
          /\ \A l \in Range(new.links) :
               ~In(l, old.links) =>
                 /\ Count(ListAt(links', new.uri.path), new.uri, l) = 1
                 /\ \A k \in DOMAIN backlinks' :
                      Count(backlinks'[k], new.uri, l) =
                        IF \E c \in Range(links'[new.uri.path]) :
                             isSameLink(c.link, l) /\ c.target.path = k
                        THEN 1 ELSE 0]_vars

\* C7: after every public mutation, no key of links or backlinks maps to an
\* empty list.
C7_NoEmptyLists ==
  /\ \A k \in DOMAIN links : links[k] # <<>>
  /\ \A k \in DOMAIN backlinks : backlinks[k] # <<>>

\* a Note that had links was replaced by one without, and the handler's
\* disconnect calls removed its entry from links
C7_Witness ==
  /\ last.op = "set"
  /\ Len(last.events) = 1
  /\ last.events[1].kind = "Updated"
  /\ last.events[1].old.links # <<>>
  /\ last.events[1].new.links = <<>>
  /\ monitors = 1
  /\ last.thrown = <<>>
  /\ ~Has(links, last.resource.uri.path)
  /\ backlinks = EmptyMap

\* the ids of the stored Notes with the basename
IdsNamed(name) == {id \in DOMAIN resources : uriToResourceName(resources[id].uri) = name}

Smallest(ids) == CHOOSE id \in ids : \A other \in ids \ {id} : localeCompareLess(id, other)

\* C8: when two or more stored Notes share a basename, find with that basename
\* returns the Note with the smallest id, whatever calls came before.
C8_DeterministicAmbiguity ==
  /\ \A key \in FindKeys :
       Cardinality(IdsNamed(key.name)) >= 2 =>
         find(Workspace, key, NoUri).r = resources[Smallest(IdsNamed(key.name))]
  /\ (last.op = "find" /\ Cardinality(IdsNamed(last.uri.path.name)) >= 2) =>
       last.ret = resources[Smallest(IdsNamed(last.uri.path.name))]

\* /b/n.md was inserted before /a/n.md, and find("n") has returned /a/n.md
C8_Witness ==
  /\ resourcesOrder = <<Str("/b", "n", ".md"), Str("/a", "n", ".md")>>
  /\ last.op = "find"
  /\ last.ret.type = "note"
  /\ last.ret.uri.path = Str("/a", "n", ".md")

\* C9: set(note) emits exactly one notification, Updated{old, new} when a Note
\* was stored at the same normalized id and Added{new} otherwise, emitted when
\* the index already holds the new Note; set(placeholder) stores the
\* placeholder and emits nothing.
C9_SetNotifies ==
  [][last'.op = "set" =>
       LET r == last'.resource
           id == uriToResourceId(r.uri)
       IN IF r.type = "placeholder"
          THEN /\ last'.events = <<>>
               /\ placeholders' = Put(placeholders, uriToPlaceholderId(r.uri), r)
          ELSE /\ Len(last'.events) = 1
               /\ last'.events[1].new = r
               /\ last'.events[1].held
               /\ resources'[id] = r
               /\ IF Has(resources, id)
                  THEN /\ last'.events[1].kind = "Updated"
                       /\ last'.events[1].old = resources[id]
                  ELSE /\ last'.events[1].kind = "Added"]_vars

\* a Note was replaced under its id while the handlers were subscribed
C9_Witness ==
  /\ last.op = "set"
  /\ monitors = 1
  /\ Len(last.events) = 1
  /\ last.events[1].kind = "Updated"
  /\ last.events[1].old.links # last.events[1].new.links
  /\ last.events[1].held

\* C10: delete of an id with no stored Note returns none, raises nothing, emits
\* nothing and changes none of the five maps; Deleted is emitted exactly when
\* a stored Note was removed.
C10_DeleteAbsent ==
  [][last'.op = "delete" =>
       LET id == uriToResourceId(last'.uri) IN
       IF Has(resources, id)
       THEN /\ Len(last'.events) = 1
            /\ last'.events[1].kind = "Deleted"
            /\ last'.events[1].old = resources[id]
       ELSE /\ last'.ret = None
            /\ last'.raised = ""
            /\ last'.events = <<>>
            /\ UNCHANGED <<resources, resourcesByName, placeholders, links,
                           backlinks>>]_vars

\* the call that just returned deleted a stored Note
gone == ResourceAt(resources, uriToResourceId(last'.uri))

\* C11: in incremental mode, no connect or disconnect called by the Added,
\* Updated and Deleted handlers raises: no handler of a set or delete call ends
\* with a TypeError, also when links has no entry for the source or backlinks
\* none for the target.
C11_ConnectDisconnectTotal ==
  \A i \in 1..Len(last.thrown) : last.thrown[i] # "TypeError"

\* C12: after set(r) of a Note returns, get(r.uri) returns r with nothing
\* raised, whatever was stored before; get of a URI whose id holds no Note
\* raises "Resource not found".
C12_RoundTrip ==
  /\ (last.op = "set" /\ last.resource.type = "note") =>
       /\ Ok(get(Workspace, last.resource.uri).w)
       /\ get(Workspace, last.resource.uri).r = last.resource
  /\ \A path \in NotePaths :
       ~Has(resources, pathToResourceId(path)) =>
         get(Workspace, FileUri(path)).w.err = "Resource not found"

\* /a/n replaced the Note stored as /a/n.md while the handlers were
\* subscribed, and get gives it back
C12_Witness ==
  /\ last.op = "set"
  /\ monitors = 1
  /\ last.resource.uri.path = Str("/a", "n", "")
  /\ Len(last.events) = 1
  /\ last.events[1].kind = "Updated"
  /\ last.events[1].old.uri.path = Str("/a", "n", ".md")
  /\ get(Workspace, last.resource.uri).r = last.resource
  /\ ~Has(resources, Str("/b", "n", ".md"))

\* C13: in incremental mode every set and delete returns after one
\* notification: the placeholders its handlers set and the Connections they
\* add and remove emit nothing further, and each handler ran to its end or to
\* an exception once.
C13_CascadeTerminates ==
  /\ Len(last.events) <= 1
  /\ Len(last.thrown) <= Len(last.events) * monitors
  /\ \A i \in 1..Len(last.events) : last.events[i].kind \in {"Added", "Updated", "Deleted"}
  /\ last.op = "delete" => (Len(last.events) = 1 <=> isSome(last.ret))
  /\ (last.op = "set" /\ last.raised = "") => Len(last.events) = 1

\* the Added handler of a set has resolved [[n]] to a placeholder, which it
\* set into the workspace from inside the notification
C13_Witness ==
  /\ last.op = "set"
  /\ monitors = 1
  /\ Len(last.events) = 1
  /\ last.events[1].kind = "Added"
  /\ last.thrown = <<>>
  /\ Has(placeholders, Key("n"))
  /\ \E c \in Range(ListAt(links, last.resource.uri.path)) :
       c.target = placeholderUri(Key("n"))

\* C14: in incremental mode, when delete(id) removes a Note that has outgoing
\* Connections, then when delete returns links has no entry for id, no list of
\* backlinks holds a Connection whose source is id, and every placeholder that
\* only that Note referenced is gone from the placeholder map.
C14_DeletedOwnEdges ==
  [][(last'.op = "delete" /\ isSome(gone) /\ Has(links, gone.uri.path)) =>
       /\ ~Has(links', gone.uri.path)
       /\ \A c \in Connections(backlinks') : ~isSameUri(c.source, gone.uri)
       /\ \A c \in Range(links[gone.uri.path]) :
            (/\ isPlaceholder(c.target)
             /\ \A d \in Range(ListAt(backlinks, c.target.path)) :
                  isSameUri(d.source, gone.uri))
            => ~Has(placeholders', uriToPlaceholderId(c.target))]_vars

\* C15: in incremental mode, when the Added handler runs resolveResource on the
\* Notes that linked to the promoted placeholder and ends without an
\* exception, then for each of them the Connections it is the source of in
\* backlinks are exactly those of its list in links, that list has one
\* Connection per reference of the Note in order, and the placeholders its
\* previous Connections targeted and nothing targets any more are removed.
C15_ResolveBothSides ==
  [][LET n == last'.resource
         p == Key(uriToResourceName(n.uri))
         sources == {c.source : c \in Range(ListAt(backlinks, placeholders[p].uri.path))}
     IN (SetOfNote /\ ~exists(Workspace, n.uri) /\ Has(placeholders, p)
           /\ last'.thrown = <<>>) =>
          \A s \in sources :
            /\ {c \in Connections(backlinks') : isSameUri(c.source, s)}
                 = Range(ListAt(links', s.path))
            /\ [i \in 1..Len(ListAt(links', s.path)) |-> links'[s.path][i].link]
                 = resources[uriToResourceId(s)].links
            /\ \A c \in Range(ListAt(links, s.path)) :
                 (/\ isPlaceholder(c.target)
                  /\ \A d \in Connections(links') : ~isSameUri(d.target, c.target))
                 => ~Has(placeholders', uriToPlaceholderId(c.target))]_vars

\* C16: in every state a public call of incremental mode leaves, every
\* Connection of links or backlinks whose target is a placeholder URI has its
\* entry in the placeholder map.
C16_NoDanglingPlaceholder ==
  \A c \in Connections(links) \cup Connections(backlinks) :
    c.target.scheme = "placeholder" => c.target.path \in DOMAIN placeholders

\* C17: after every public mutation in incremental mode, no placeholder is
\* stored under the id of a stored Note nor under the basename of a stored
\* Note.
C17_DisjointIds ==
  \A id \in DOMAIN resources :
    /\ ~Has(placeholders, id)
    /\ ~Has(placeholders, Key(uriToResourceName(resources[id].uri)))

\* C18: after every set and delete, each entry of resourcesByName is non-empty,
\* lists no id twice and lists exactly the ids of the stored Notes with that
\* basename, also after a Note is set again at the id it occupies.
C18_NameIndex ==
  \A name \in DOMAIN resourcesByName :
    /\ resourcesByName[name] # <<>>
    /\ Cardinality(Range(resourcesByName[name])) = Len(resourcesByName[name])
    /\ Range(resourcesByName[name]) = IdsNamed(name)

\* C19: however many times resolveLinks(true) was called, one set of a new
\* Note that is the source of no Connection yet leaves, for each of its
\* references, at most one Connection from it in each list of backlinks: the
\* Added notification is applied to the graph once.
C19_HandlersOnce ==
  [][LET n == last'.resource
     IN (SetOfNote /\ ~exists(Workspace, n.uri) /\ monitors >= 1
           /\ \A c \in Connections(backlinks) : ~isSameUri(c.source, n.uri)) =>
          \A l \in Range(n.links) : \A k \in DOMAIN backlinks' :
            Count(backlinks'[k], n.uri, l) <= 1]_vars

\* C20: no sequence of public calls makes updateLinksForResource raise
\* "Unexpected State": every Updated notification a handler receives carries
\* old and new with the same path, also when one URI has no extension and the
\* other the same path with the default extension.
C20_NoIdentifierMismatch ==
  \A i \in 1..Len(last.thrown) : last.thrown[i] # "Unexpected State"

====
